---- MODULE Spec2Model ----
(***************************************************************************)
(* Model of the programs of express-mcp-adapter:                           *)
(*   - the correlated relay      (src/bin/express-mcp.ts, main)            *)
(*   - the fan-out bridge        (src/gateways/stdioToMultiSse.ts)         *)
(*   - the relay through the SDK client       (unnamed/part_002)           *)
(*   - the MCPServer router      (src/server/expressMiddleware.ts)         *)
(*   - the stdin-to-POST client  (unnamed/part_001)                        *)
(* Each program has its own specifications; the variables of the other     *)
(* programs stay at their initial value.                                   *)
(***************************************************************************)
EXTENDS Integers, Sequences, FiniteSets, TLC

VARIABLES
  \* ---- correlated relay ----
  localIn,    \* messages the stdio transport delivered to stdioTransport.onmessage
  reqs,       \* one entry per forwarded request: the promise and timer of its handler call
  chain,      \* sseTransport.onmessage: the wrappers installed, newest first
  toRemote,   \* messages passed to sseTransport.send, in order
  toLocal,    \* messages passed to stdioTransport.send, in order
  remoteCnt,  \* number of messages received from the remote peer so far
  lastEvent,  \* the handler that ran last and its argument
  relay,      \* the relay process: connecting, running or exited, and its exit status
  serverInfo, \* the server info and capabilities kept from the connect
  \* ---- fan-out bridge ----
  sessions,   \* the `sessions` record: registered session id -> endpoint it connected to
  nextSid,    \* session ids handed out so far (sseTransport.sessionId is fresh)
  timers,     \* session ids whose keepAliveInterval is active
  bcastLog,   \* one entry per run of the broadcast loop
  buffer,     \* the carry-over `buffer` of the stdout reader
  stream,     \* every character the child wrote to stdout so far
  chunkCnt,   \* number of stdout chunks received so far
  sends,      \* the calls of session.transport.send, in the order they were made
  joined,     \* per session id: the number of broadcasts done when it registered
  seen,       \* the complete lines the stdout reader has iterated over, in order
  toWrite,    \* the bytes the child has still to write to stdout
  child,      \* the child process: whether it has exited, and its exit code
  proc,       \* the bridge process: whether it runs, and its exit status
  childStdin, \* every character written to child.stdin so far
  inbound,    \* the messages received from the sessions, in order
  replies,    \* the answers of the message endpoint to the POSTs, in order
  stalled,    \* the sessions whose send never completes
  removals,   \* per session id: how many close or error events were handled for it
  \* ---- relay through the SDK client (unnamed/part_002) ----
  sseOnMessage, \* the function sseTransport.onmessage holds: the SDK client's or the forwarding one
  clientNextId, \* the SDK client's counter of request ids
  clientReqs,   \* the calls of sseClient.request made for the local peer's requests
  actualTools,  \* the tools fetched at startup
  stdioIn,      \* messages the stdio transport delivered to stdioTransport.onmessage
  sseOut,       \* messages the SDK client sent to the remote peer, in order
  stdioOut,     \* messages passed to stdioTransport.send, in order
  sseCnt,        \* number of messages received from the remote peer after startup
  \* ---- MCPServer router (src/server/expressMiddleware.ts) ----
  sseCount, \* SSE connections accepted so far (each transport has a fresh session id)
  openSse, \* session ids whose SSE connection is open
  pingIntervals, \* session ids whose pingInterval is active
  serverTransport, \* the transport the server was connected to last, 0 before the first
  sseStreams, \* per session id, the events written on its SSE stream
  posted, \* the POSTs the message path answered, in order
  serverIn, \* the messages handed to the MCP server, in order
  \* ---- stdin-to-POST client (unnamed/part_001) ----
  stdinText, \* the whole text that arrives on stdin
  stdinLeft, \* the part of it that has not arrived yet
  fetches, \* the fetch calls to the message URL, in the order they were started
  loops, \* one entry per call of the 'data' listener that started a fetch: its lines still to post, and whether it waits
  linesRead \* number of postable lines in the chunks received so far

relayVars == <<localIn, reqs, chain, toRemote, toLocal, remoteCnt, lastEvent,
               relay, serverInfo>>
fanVars   == <<sessions, nextSid, timers, bcastLog, buffer, stream, chunkCnt,
               sends, joined, seen, toWrite, child, proc, childStdin, inbound,
               replies, stalled, removals>>
pipeVars  == <<sseOnMessage, clientNextId, clientReqs, actualTools, stdioIn, sseOut,
               stdioOut, sseCnt>>
mcpVars == <<sseCount, openSse, pingIntervals, serverTransport, sseStreams, posted, serverIn>>
clientVars == <<stdinText, stdinLeft, fetches, loops, linesRead>>
notRelay  == <<fanVars, pipeVars, mcpVars, clientVars>>
notFanout == <<relayVars, pipeVars, mcpVars, clientVars>>
notPipe   == <<relayVars, fanVars, mcpVars, clientVars>>
notMcp == <<relayVars, fanVars, pipeVars, clientVars>>
notClient == <<relayVars, fanVars, pipeVars, mcpVars>>
vars      == <<localIn, reqs, chain, toRemote, toLocal, remoteCnt, lastEvent,
               relay, serverInfo,
               sessions, nextSid, timers, bcastLog, buffer, stream, chunkCnt,
               sends, joined, seen, toWrite, child, proc, childStdin, inbound,
               replies, stalled, removals,
               sseOnMessage, clientNextId, clientReqs, actualTools, stdioIn, sseOut,
               stdioOut, sseCnt,
               sseCount, openSse, pingIntervals, serverTransport, sseStreams, posted, serverIn,
               stdinText, stdinLeft, fetches, loops, linesRead>>

----------------------------------------------------------------------------
(* Bounds of the model *)
MaxLocal    == 3   \* messages the local peer sends
MaxRemote   == 1   \* messages the remote peer sends
MaxSessions == 2   \* SSE connections opened
MaxChunks   == 1   \* stdout chunks the child writes
MaxInbound  == 2   \* messages the sessions post
MaxStreamLen == 4  \* bytes of a stdout stream cut into chunks
MaxRemovals == 2   \* close and error events handled for one session
MaxStdinLen == 5   \* characters of a stdin text cut into chunks

(* Program constants *)
TimeoutCode      == -32001
DefaultErrorCode == -32000

----------------------------------------------------------------------------
(* JSON-RPC messages.  A message is a record of its keys; a key that is     *)
(* absent from the JavaScript object has the value NoId / NoMethod /        *)
(* NoParams / NoResult / NoError.                                          *)
NoId     == 0
NoMethod == "-"
NoParams == "-"
NoResult == "-"
NoError  == [present |-> FALSE, code |-> 0, message |-> ""]

Err(c, m) == [present |-> TRUE, code |-> c, message |-> m]

Msg(i, m, p, r, e) == [id |-> i, method |-> m, params |-> p, result |-> r, error |-> e]

Ids == 1..3

(* Result values: null, a falsy primitive, an object without an `error`     *)
(* key, an object with an `error` key.                                     *)
Results == {"null", "zero", "objOk", "objErr"}

Truthy(r)       == r \in {"objOk", "objErr"}
IsObject(r)     == r \in {"null", "objOk", "objErr"}     \* typeof r === 'object'
HasErrorKey(r)  == r = "objErr"                          \* 'error' in r
InnerError      == Err(7, "inner")                       \* r.error of "objErr"

RemoteErrors == {Err(0, ""), Err(-5, "boom")}

\* mutant: the timeout rejects without an error code
TimeoutError_NoCode  == Err(0, "Request timed out")
TimeoutError         == Err(TimeoutCode, "Request timed out")
DefaultErrorMessage  == "Failed to forward request to SSE server"


----------------------------------------------------------------------------
(* The messages the peers can send *)

Request(i, m, p)  == Msg(i, m, p, NoResult, NoError)
Notification(m)   == Msg(NoId, m, NoParams, NoResult, NoError)
ResultResponse(i, r) == Msg(i, NoMethod, NoParams, r, NoError)
ErrorResponse(i, e)  == Msg(i, NoMethod, NoParams, NoResult, e)

\* Every id carries a plain request and a plain response; the other shapes
\* are sent with id 1 (the relay compares ids for equality and nothing else).
LocalMessages ==
  { Request(1, "foo", "p"), Request(2, "foo", "p"), Request(3, "foo", "q"),
    Request(1, "initialize", "p"), Notification("note") }

RemoteMessages ==
  { ResultResponse(i, "objOk") : i \in Ids }
    \cup { ResultResponse(1, r) : r \in Results \ {"null"} }
    \cup { ErrorResponse(1, e) : e \in RemoteErrors }
    \cup { Request(1, "ping", NoParams), Notification("progress") }

HasId(m)     == m.id # NoId                 \* 'id' in message
HasMethod(m) == m.method # NoMethod         \* 'method' in message
HasResult(m) == m.result # NoResult         \* 'result' in message
HasError(m)  == m.error.present             \* 'error' in message

----------------------------------------------------------------------------
(* Correlated relay: src/bin/express-mcp.ts *)

\* mutant: every message with a method is a request
IsRequest_MethodOnly(message) == HasMethod(message)

\* const isRequest = 'method' in message && 'id' in message
IsRequest(message) == HasMethod(message) /\ HasId(message)

\* what sseClient.getServerVersion() / getServerCapabilities() return after a
\* completed connect: the info and capabilities one of two servers announced
ConnectResults == {"srvA", "srvB"}

\* sseClient.getServerVersion() || { name: 'unknown-mcp-server', ... }
OrDefault(info) == IF info = "undefined" THEN "unknown-mcp-server" ELSE info

\* mutant: the relay answers with the defaults
InitializeResponse_Default(req) == ResultResponse(req.id, "unknown-mcp-server")

\* the response the relay writes itself for an 'initialize' request: its
\* result is built from serverInfo and serverCapabilities
InitializeResponse(req) == ResultResponse(req.id, serverInfo)

\* mutant: the copy sent upstream loses the params
SseRequest_NoParams(req) == Msg(req.id, req.method, NoParams, req.result, req.error)

\* const sseRequest = { ...req }
SseRequest(req) == Msg(req.id, req.method, req.params, req.result, req.error)

\* mutant: the one-time handler takes any message that carries an id
ResponseHandlerMatches_AnyId(originalId, responseMsg) == HasId(responseMsg)

\* if ('id' in responseMsg && responseMsg.id === originalId)
ResponseHandlerMatches(originalId, responseMsg) ==
  HasId(responseMsg) /\ responseMsg.id = originalId

\* mutant: the oldest matching wrapper takes the message
MatchingHandler_OldestFirst(msg) ==
  LET M == { k \in 1..Len(chain) : ResponseHandlerMatches(reqs[chain[k]].id, msg) }
  IN  IF M = {} THEN 0 ELSE chain[CHOOSE k \in M : \A j \in M : k >= j]

\* the wrappers of sseTransport.onmessage are tried newest first; each passes
\* the message to the handler it wrapped when its responseHandler returns false
MatchingHandler(msg) ==
  LET M == { k \in 1..Len(chain) : ResponseHandlerMatches(reqs[chain[k]].id, msg) }
  IN  IF M = {} THEN 0 ELSE chain[CHOOSE k \in M : \A j \in M : k <= j]

\* sseTransport.onmessage = (msg) => { if (!responseHandler(msg)) originalHandler(msg) }
WrapHandler(n) == <<n>> \o chain

\* const oldHandler = sseTransport?.onmessage; sseTransport.onmessage = oldHandler
RemoveHandler(n) == chain

\* code: err.code || -32000, message: err.message || 'Failed to forward ...'
CaughtError(err) ==
  Err(IF err.code # 0 THEN err.code ELSE DefaultErrorCode,
      IF err.message # "" THEN err.message ELSE DefaultErrorMessage)

\* the errorResponse of the catch block
MakeErrorResponse(req, err) == ErrorResponse(req.id, CaughtError(err))

\* the response built after the await: result && typeof result === 'object'
\* && 'error' in result ? { error: result.error } : { result: result }
MakeResponse(req, result) ==
  IF Truthy(result) /\ IsObject(result) /\ HasErrorKey(result)
    THEN Msg(req.id, NoMethod, NoParams, NoResult, InnerError)
    ELSE ResultResponse(req.id, result)

\* what the promise of a forwarded request is settled with by a matching message
SettledWith(responseMsg) ==
  IF HasError(responseMsg) THEN [state |-> "rejected", result |-> NoResult, error |-> responseMsg.error]
  ELSE IF HasResult(responseMsg) THEN [state |-> "resolved", result |-> responseMsg.result, error |-> NoError]
  ELSE [state |-> "resolved", result |-> "null", error |-> NoError]

\* the continuation of the handler call once its promise is settled
Continuation(req, s) ==
  IF s.state = "rejected" THEN MakeErrorResponse(req, s.error)
                          ELSE MakeResponse(req, s.result)

\* mutant: a settled promise is settled again
PromiseSettles_Always(n) == TRUE

\* resolve / reject of the promise of request n (line 198) act only on a
\* promise that is still pending
PromiseSettles(n) == reqs[n].state = "pending"

\* mutant: the base handler also forwards what carries a method
BaseHandlerForwards_Requests(message) == ~HasId(message) \/ HasMethod(message)

\* mutant: the base handler forwards every message it is passed
BaseHandlerForwards_All(message) == TRUE

\* if (!('id' in message) || typeof message.id === 'undefined')
BaseHandlerForwards(message) == ~HasId(message)

Written(msg, n) == [msg |-> msg, for |-> n]

Event(kind, msg, n) == [kind |-> kind, msg |-> msg, n |-> n]

\* stdioTransport.onmessage up to the await (lines 163-245) and the else branch
StdioOnMessage(message) ==
  /\ relay.phase = "running"
  /\ Len(localIn) < MaxLocal
  /\ localIn' = Append(localIn, message)
  /\ lastEvent' = Event("local", message, 0)
  /\ IF IsRequest(message)
       THEN IF message.method = "initialize"
              THEN /\ toLocal' = Append(toLocal, Written(InitializeResponse(message), 0))
                   /\ UNCHANGED <<reqs, chain, toRemote>>
              ELSE /\ toRemote' = Append(toRemote, SseRequest(message))
                   /\ reqs' = Append(reqs, [id |-> message.id, method |-> message.method,
                                            params |-> message.params,
                                            state |-> "pending", timerFired |-> FALSE])
                   /\ chain' = WrapHandler(Len(reqs) + 1)
                   /\ UNCHANGED toLocal
       ELSE /\ toRemote' = Append(toRemote, message)
            /\ UNCHANGED <<reqs, chain, toLocal>>
  /\ UNCHANGED <<remoteCnt, relay, serverInfo>>

\* sseTransport.onmessage: the wrappers (lines 208-238) over the base handler
\* (lines 298-306), and the continuation of the handler call it settles
SseOnMessage(msg) ==
  /\ relay.phase = "running"
  /\ remoteCnt < MaxRemote
  /\ remoteCnt' = remoteCnt + 1
  /\ LET n == MatchingHandler(msg) IN
       /\ lastEvent' = Event("remote", msg, n)
       /\ IF n # 0
            THEN /\ chain' = RemoveHandler(n)
                 /\ IF PromiseSettles(n)
                      THEN /\ reqs' = [reqs EXCEPT ![n].state = SettledWith(msg).state]
                           /\ toLocal' = Append(toLocal,
                                  Written(Continuation(reqs[n], SettledWith(msg)), n))
                      ELSE UNCHANGED <<reqs, toLocal>>
            ELSE /\ toLocal' = IF BaseHandlerForwards(msg)
                                  THEN Append(toLocal, Written(msg, 0))
                                  ELSE toLocal
                 /\ UNCHANGED <<reqs, chain>>
  /\ UNCHANGED <<localIn, toRemote, relay, serverInfo>>

\* mutant: the timeout rejects every pending request
RejectOnTimeout_All(n) ==
  [j \in 1..Len(reqs) |->
     IF j = n THEN [reqs[j] EXCEPT !.state = "rejected", !.timerFired = TRUE]
     ELSE IF reqs[j].state = "pending" THEN [reqs[j] EXCEPT !.state = "rejected"]
     ELSE reqs[j]]

\* reject({ code: -32001, ... }) of the timer of request n: only the promise
\* of that handler call is rejected
RejectOnTimeout(n) == [reqs EXCEPT ![n].state = "rejected", ![n].timerFired = TRUE]

\* the setTimeout callback of request n (lines 242-244) and the continuation;
\* timers of equal delay fire in the order they were set
TimeoutFires(n) ==
  /\ relay.phase = "running"
  /\ n \in 1..Len(reqs)
  /\ ~reqs[n].timerFired
  /\ \A j \in 1..(n-1) : reqs[j].timerFired
  /\ lastEvent' = Event("timeout", Notification("-"), n)
  /\ IF PromiseSettles(n)
       THEN /\ reqs' = RejectOnTimeout(n)
            /\ toLocal' = Append(toLocal,
                   Written(Continuation(reqs[n],
                     [state |-> "rejected", result |-> NoResult, error |-> TimeoutError]), n))
       ELSE /\ reqs' = [reqs EXCEPT ![n].timerFired = TRUE]
            /\ UNCHANGED toLocal
  /\ UNCHANGED <<localIn, chain, toRemote, remoteCnt, relay, serverInfo>>

\* await sseClient.connect(sseTransport) completes and main runs on to
\* 'Adapter ready': lines 133-309
Connect(info) ==
  /\ relay.phase = "connecting"
  /\ relay' = [phase |-> "running", status |-> 0]
  /\ serverInfo' = OrDefault(info)
  /\ lastEvent' = Event("connect", Notification("-"), 0)
  /\ UNCHANGED <<localIn, reqs, chain, toRemote, toLocal, remoteCnt>>

\* mutant: the relay connects again instead of ending
RelayExit_Reconnect(status) == relay' = [phase |-> "connecting", status |-> 0]

\* process.exit(status)
RelayExit(status) == relay' = [phase |-> "exited", status |-> status]

\* the connect throws and main's catch runs: lines 313-318
ConnectFails ==
  /\ relay.phase = "connecting"
  /\ RelayExit(1)
  /\ lastEvent' = Event("fatal", Notification("-"), 0)
  /\ UNCHANGED <<localIn, reqs, chain, toRemote, toLocal, remoteCnt, serverInfo>>

\* sseTransport.onerror: lines 123-126
SseTransportOnError ==
  /\ relay.phase \in {"connecting", "running"}
  /\ RelayExit(1)
  /\ lastEvent' = Event("error", Notification("-"), 0)
  /\ UNCHANGED <<localIn, reqs, chain, toRemote, toLocal, remoteCnt, serverInfo>>

\* sseTransport.onclose: lines 127-130
SseTransportOnClose ==
  /\ relay.phase \in {"connecting", "running"}
  /\ RelayExit(1)
  /\ lastEvent' = Event("close", Notification("-"), 0)
  /\ UNCHANGED <<localIn, reqs, chain, toRemote, toLocal, remoteCnt, serverInfo>>

----------------------------------------------------------------------------
(* Relay through the SDK client: unnamed/part_002 *)

\* the tools the remote server lists
ToolLists == {"toolsA", "toolsB"}

\* the messages of the local peer
PipeLocal ==
  { Request(1, "foo", "p"), Request(2, "foo", "p"), Request(2, "initialize", "p"),
    Request(3, "tools/list", NoParams), Notification("note") }

\* Client.request(request, schema) of the SDK: the request goes out under the
\* next id of the client's own counter, whatever id the argument carries
ClientRequest(req) == Msg(clientNextId, req.method, req.params, NoResult, NoError)

\* what the remote peer may send: an answer to a request it received, under
\* the id that request carried, or a notification
PipeRemote ==
  { ResultResponse(sseOut[k].id, "objOk") : k \in 1..Len(sseOut) }
    \cup { ErrorResponse(sseOut[k].id, Err(-5, "boom")) : k \in 1..Len(sseOut) }
    \cup { Notification("progress") }

\* the request of the SDK client that a response is for: the client looks the
\* response's id up in its own table of response handlers
ClientPending(msg) ==
  { k \in 1..Len(clientReqs) :
      clientReqs[k].sdkId = msg.id /\ clientReqs[k].state = "pending" }

\* const toolsResult = await sseClient.request({ method: 'tools/list' }, ...)
\* resolves, main runs on to line 255: actualTools is set, the stdio server is
\* connected, stdioTransport.onmessage and sseTransport.onmessage are assigned
ToolsListResult(tools) ==
  /\ sseOnMessage = "client"
  /\ actualTools' = tools
  /\ sseOnMessage' = "forward"
  /\ UNCHANGED <<clientNextId, clientReqs, stdioIn, sseOut, stdioOut, sseCnt>>

\* the request throws: catch { logger.error(...) } and main runs on without tools
ToolsListFails ==
  /\ sseOnMessage = "client"
  /\ actualTools' = "none"
  /\ sseOnMessage' = "forward"
  /\ UNCHANGED <<clientNextId, clientReqs, stdioIn, sseOut, stdioOut, sseCnt>>

\* stdioTransport.onmessage up to the await: lines 174-216 and 241-247
PipeStdioOnMessage(message) ==
  /\ sseOnMessage = "forward"
  /\ Len(stdioIn) < MaxLocal
  /\ stdioIn' = Append(stdioIn, message)
  /\ IF IsRequest(message)
       THEN IF message.method = "initialize"
              THEN /\ stdioOut' = Append(stdioOut, ResultResponse(message.id, actualTools))
                   /\ UNCHANGED <<clientNextId, clientReqs, sseOut>>
            ELSE IF message.method = "tools/list"
              THEN /\ stdioOut' = Append(stdioOut, ResultResponse(message.id, actualTools))
                   /\ UNCHANGED <<clientNextId, clientReqs, sseOut>>
            ELSE /\ sseOut' = Append(sseOut, ClientRequest(message))
                 /\ clientReqs' = Append(clientReqs,
                       [id |-> message.id, sdkId |-> clientNextId, state |-> "pending"])
                 /\ clientNextId' = clientNextId + 1
                 /\ UNCHANGED stdioOut
       ELSE UNCHANGED <<clientNextId, clientReqs, sseOut, stdioOut>>
  /\ UNCHANGED <<sseOnMessage, actualTools, sseCnt>>

\* a message of the remote peer arrives: the transport calls the function its
\* onmessage property holds.  The SDK client's function, installed by
\* sseClient.connect (line 116), settles the promise of the request with that
\* id; the function assigned at line 250 writes the message to stdio
PipeSseOnMessage(msg) ==
  /\ sseOnMessage = "forward"
  /\ sseCnt < MaxRemote
  /\ msg \in PipeRemote
  /\ sseCnt' = sseCnt + 1
  /\ stdioOut' = Append(stdioOut, msg)
  /\ UNCHANGED <<sseOnMessage, clientNextId, clientReqs, actualTools, stdioIn, sseOut>>

\* the SDK client's timer of request k fires: the promise of
\* sseClient.request is rejected with the SDK's request-timeout error and the
\* catch of lines 217-229 writes the error response
ClientRequestTimeout(k) ==
  /\ sseOnMessage = "forward"
  /\ k \in 1..Len(clientReqs)
  /\ clientReqs[k].state = "pending"
  /\ \A j \in 1..(k - 1) : clientReqs[j].state # "pending"
  /\ clientReqs' = [clientReqs EXCEPT ![k].state = "rejected"]
  /\ stdioOut' = Append(stdioOut, ErrorResponse(clientReqs[k].id, CaughtError(TimeoutError)))
  /\ UNCHANGED <<sseOnMessage, clientNextId, actualTools, stdioIn, sseOut, sseCnt>>

----------------------------------------------------------------------------
(* Fan-out bridge: src/gateways/stdioToMultiSse.ts *)

Endpoints == {"/a", "/b"}

\* stdout text, one string per character
Whitespace == {"SP", "CR"}
Chunks ==
  { <<"1", "LF">>, <<"1">>, <<"LF">>, <<"x", "LF">>, <<"x", "LF", "1", "LF">>,
    <<"SP", "CR", "LF", "1", "CR", "LF", "1", "1", "LF">> }

\* buffer.split(/\r?\n/): the segments between the terminators, the last
\* one being the text after the last terminator
RECURSIVE SplitFrom(_, _, _)
SplitFrom(s, i, cur) ==
  IF i > Len(s) THEN <<cur>>
  ELSE IF s[i] = "LF" THEN <<cur>> \o SplitFrom(s, i + 1, <<>>)
  ELSE IF s[i] = "CR" /\ i < Len(s) /\ s[i + 1] = "LF"
         THEN <<cur>> \o SplitFrom(s, i + 2, <<>>)
  ELSE SplitFrom(s, i + 1, Append(cur, s[i]))

Split(s) == SplitFrom(s, 1, <<>>)

\* line.trim()
RECURSIVE TrimLeft(_)
TrimLeft(line) ==
  IF line # <<>> /\ Head(line) \in Whitespace THEN TrimLeft(Tail(line)) ELSE line
RECURSIVE TrimRight(_)
TrimRight(line) ==
  IF line # <<>> /\ line[Len(line)] \in Whitespace
    THEN TrimRight(SubSeq(line, 1, Len(line) - 1)) ELSE line
Trim(line) == TrimRight(TrimLeft(line))

\* JSON.parse(line) on this alphabet: optional whitespace around one number
\* made of the digit 1; anything else throws
RECURSIVE Digits(_)
Digits(t) == IF t = <<>> THEN 0 ELSE 10 * Digits(SubSeq(t, 1, Len(t) - 1)) + 1
JsonParse(line) ==
  LET t == Trim(line) IN
    IF t # <<>> /\ \A k \in 1..Len(t) : t[k] = "1"
      THEN [ok |-> TRUE, value |-> Digits(t)]
      ELSE [ok |-> FALSE, value |-> 0]

\* Object.entries(sessions): the keys in insertion order, taken when the
\* loop starts (session ids are handed out in increasing order)
RECURSIVE Ascending(_)
Ascending(S) ==
  IF S = {} THEN <<>>
  ELSE LET m == CHOOSE x \in S : \A y \in S : x <= y
       IN  <<m>> \o Ascending(S \ {m})
\* mutant: the loop visits every entry twice
Entries_Twice(reg) == Ascending(DOMAIN reg) \o Ascending(DOMAIN reg)
\* mutant: the loop visits the sessions of one endpoint only
Entries_OneEndpoint(reg) == Ascending({ s \in DOMAIN reg : reg[s] = "/a" })
Entries(reg) == Ascending(DOMAIN reg)

\* mutant: removal by position, where the position of an absent id is
\* taken for the last one
Delete_ByPosition(reg, sid) ==
  IF sid \in DOMAIN reg \/ DOMAIN reg = {}
    THEN [s \in DOMAIN reg \ {sid} |-> reg[s]]
    ELSE LET last == CHOOSE x \in DOMAIN reg : \A y \in DOMAIN reg : y <= x
         IN  [s \in DOMAIN reg \ {last} |-> reg[s]]

\* delete sessions[sid]
Delete(reg, sid) == [s \in DOMAIN reg \ {sid} |-> reg[s]]

\* session.transport.send(jsonMsg) throws in the k-th broadcast of a handler
\* call: failAt[sid] is the first broadcast in which the send to sid throws
\* (0: it does not throw)
SendThrows(sid, k, failAt) == failAt[sid] # 0 /\ failAt[sid] <= k

\* mutant: the catch block logs and keeps the session
CatchSendFailure_Keep(reg, sid) == reg

\* catch (err) { logger.error(...); delete sessions[sid] }
CatchSendFailure(reg, sid) == Delete(reg, sid)

\* mutant: a failed send ends the loop
AfterCatch_Abort(todo) == <<>>

\* the for loop goes on with the next entry after the catch block
AfterCatch(todo) == Tail(todo)

\* mutant: the loop awaits the promise that send returns
SendBlocks_Awaited(sid) == sid \in stalled

\* session.transport.send(jsonMsg) is called without await: the loop never
\* waits for the promise it returns
SendBlocks(sid) == FALSE

\* for (const [sid, session] of Object.entries(sessions)) { try ... catch ... }
RECURSIVE BroadcastLoop(_, _, _, _, _, _)
BroadcastLoop(todo, reg, jsonMsg, entry, k, failAt) ==
  IF todo = <<>> THEN [reg |-> reg, entry |-> entry]
  ELSE LET sid   == Head(todo)
           tried == [entry EXCEPT !.sent = @ \cup {<<sid, jsonMsg>>},
                                  !.calls = Append(@, sid)]
       IN  IF SendThrows(sid, k, failAt)
             THEN BroadcastLoop(AfterCatch(todo), CatchSendFailure(reg, sid), jsonMsg,
                                [tried EXCEPT !.failed = @ \cup {sid}], k, failAt)
             ELSE IF SendBlocks(sid) THEN [reg |-> reg, entry |-> tried]
             ELSE BroadcastLoop(Tail(todo), reg, jsonMsg, tried, k, failAt)

Broadcast(reg, line, jsonMsg, k, failAt) ==
  BroadcastLoop(Entries(reg), reg, jsonMsg,
                [line |-> line, registry |-> DOMAIN reg, sent |-> {}, failed |-> {},
                 calls |-> <<>>],
                k, failAt)

\* chunk.toString('utf8') on bytes: an ASCII byte is its character; "H" and
\* "T" are the lead and the continuation byte of one two-byte character "E";
\* a lead byte without its continuation, and a continuation byte without its
\* lead, each decode to the replacement character "FFFD"
RECURSIVE Utf8From(_, _)
Utf8From(bytes, i) ==
  IF i > Len(bytes) THEN <<>>
  ELSE IF bytes[i] = "H"
         THEN IF i < Len(bytes) /\ bytes[i + 1] = "T"
                THEN <<"E">> \o Utf8From(bytes, i + 2)
                ELSE <<"FFFD">> \o Utf8From(bytes, i + 1)
  ELSE IF bytes[i] = "T" THEN <<"FFFD">> \o Utf8From(bytes, i + 1)
  ELSE <<bytes[i]>> \o Utf8From(bytes, i + 1)
ToStringUtf8(chunk) == Utf8From(chunk, 1)

\* mutant: the text after the last terminator is handled as a line too
CompleteLines_WithTail(split) == split

\* mutant: the complete lines are handled last to first
CompleteLines_Reversed(split) ==
  [k \in 1..(Len(split) - 1) |-> split[Len(split) - k]]

\* const lines = buffer.split(/\r?\n/); buffer = lines.pop() ?? '': what is
\* left in `lines` after the pop
CompleteLines(split) == SubSeq(split, 1, Len(split) - 1)

\* mutant: a line that does not parse ends the forEach
AfterParseError_Abort(lines) == <<>>

\* catch { logger.error(`Child non-JSON: ${line}`) }: the callback returns
\* and forEach goes on with the next line
AfterParseError(lines) == Tail(lines)

\* the send calls of one run of the broadcast loop, in call order; n is the
\* ordinal of the broadcast
SendCalls(entry, jsonMsg, n) ==
  [j \in 1..Len(entry.calls) |->
     [sid |-> entry.calls[j], msg |-> jsonMsg, n |-> n,
      settled |-> entry.calls[j] \notin stalled]]

\* lines.forEach((line) => { ... }) of the stdout reader; k counts the
\* broadcasts of this handler call
RECURSIVE ForEachLine(_, _, _, _, _, _)
ForEachLine(lines, reg, log, snd, k, failAt) ==
  IF lines = <<>> THEN [reg |-> reg, log |-> log, sends |-> snd]
  ELSE LET line == Head(lines) IN
       IF Trim(line) = <<>> THEN ForEachLine(Tail(lines), reg, log, snd, k, failAt)
       ELSE IF ~JsonParse(line).ok
              THEN ForEachLine(AfterParseError(lines), reg, log, snd, k, failAt)
       ELSE LET b == Broadcast(reg, line, JsonParse(line).value, k, failAt)
            IN  ForEachLine(Tail(lines), b.reg, Append(log, b.entry),
                            snd \o SendCalls(b.entry, JsonParse(line).value, Len(log) + 1),
                            k + 1, failAt)

\* the lines of a handler call that are broadcast
Broadcastable(lines) ==
  SelectSeq(lines, LAMBDA line : Trim(line) # <<>> /\ JsonParse(line).ok)

\* mutant: the registry keeps one session per endpoint
Register_PerEndpoint(reg, sid, endpoint) ==
  [s \in { t \in DOMAIN reg : reg[t] # endpoint } \cup {sid} |->
     IF s = sid THEN endpoint ELSE reg[s]]

\* sessions[sessionId] = { transport: sseTransport, response: res }
Register(reg, sid, endpoint) ==
  [s \in DOMAIN reg \cup {sid} |-> IF s = sid THEN endpoint ELSE reg[s]]

\* app.get(ssePath, ...): lines 135-195
SseConnect(endpoint) ==
  /\ proc.alive
  /\ nextSid < MaxSessions
  /\ nextSid' = nextSid + 1
  /\ sessions' = Register(sessions, nextSid + 1, endpoint)
  /\ timers' = timers \cup {nextSid + 1}
  /\ joined' = Append(joined, Len(bcastLog))
  /\ UNCHANGED <<bcastLog, buffer, stream, chunkCnt, sends, seen, child, proc,
                 childStdin, inbound>>

\* mutant: the teardown of one session empties the registry
Teardown_All(sid) ==
  /\ proc.alive
  /\ sid \in 1..nextSid
  /\ sessions' = <<>>
  /\ timers' = {}
  /\ UNCHANGED <<nextSid, bcastLog, buffer, stream, chunkCnt, sends, joined, seen,
                 child, proc, childStdin, inbound>>

\* delete sessions[sessionId]; clearInterval(keepAliveInterval)
Teardown(sid) ==
  /\ proc.alive
  /\ sid \in 1..nextSid
  /\ sessions' = Delete(sessions, sid)
  /\ timers' = timers \ {sid}
  /\ UNCHANGED <<nextSid, bcastLog, buffer, stream, chunkCnt, sends, joined, seen,
                 child, proc, childStdin, inbound>>

\* sseTransport.onclose: lines 171-177
TransportOnClose(sid) == Teardown(sid)
\* sseTransport.onerror: lines 179-186
TransportOnError(sid) == Teardown(sid)
\* req.on('close', ...): lines 188-194
ReqOnClose(sid) == Teardown(sid)

\* the setInterval callback: lines 156-162; res.write may throw
KeepAlive(sid, writeThrows) ==
  /\ proc.alive
  /\ sid \in timers
  /\ timers' = IF writeThrows THEN timers \ {sid} ELSE timers
  /\ UNCHANGED <<sessions, nextSid, bcastLog, buffer, stream, chunkCnt, sends, joined,
                 seen, child, proc, childStdin, inbound>>

\* child.stdout.on('data', ...): lines 241-262; the chunk is a Buffer of bytes
ChildStdoutData(chunk) ==
  /\ proc.alive
  /\ chunkCnt' = chunkCnt + 1
  /\ stream' = stream \o chunk
  /\ LET split == Split(buffer \o ToStringUtf8(chunk))
         lines == CompleteLines(split)
     IN  /\ buffer' = split[Len(split)]
         /\ seen' = seen \o lines
         /\ \E failAt \in [DOMAIN sessions -> 0..Len(Broadcastable(lines))] :
              LET done == ForEachLine(lines, sessions, bcastLog, sends, 1, failAt)
              IN  /\ sessions' = done.reg
                  /\ bcastLog' = done.log
                  /\ sends' = done.sends
  /\ UNCHANGED <<nextSid, timers, joined, child, proc, childStdin, inbound>>

\* the client of a session stops reading: from now on the promise of a send
\* to that session never settles
SinkStalls(sid) ==
  /\ proc.alive
  /\ sid \in DOMAIN sessions \ stalled
  /\ stalled' = stalled \cup {sid}
  /\ UNCHANGED <<sessions, nextSid, timers, bcastLog, buffer, stream, chunkCnt, sends,
                 joined, seen, child, proc, childStdin, inbound>>

\* the `code` argument of the child's 'exit' event: a number, or null when a
\* signal ended the child
NullCode == -1
ExitCodes == {NullCode, 0, 1, 2}

\* mutant: code || 1
ExitStatus_Or(code) == IF code = NullCode \/ code = 0 THEN 1 ELSE code

\* code ?? 1
ExitStatus(code) == IF code = NullCode THEN 1 ELSE code

\* mutant: the exit handler logs and returns
ProcessExit_Skipped(status) == UNCHANGED <<proc, sessions, timers>>

\* process.exit(status): the bridge process ends with this status; its
\* connections are closed and its intervals never fire again
ProcessExit(status) ==
  /\ proc' = [alive |-> FALSE, status |-> status]
  /\ sessions' = <<>>
  /\ timers' = {}

\* child.on('exit', (code, signal) => { ... }): lines 67-71
ChildOnExit(code) ==
  /\ proc.alive
  /\ ~child.exited
  /\ child' = [exited |-> TRUE, code |-> code]
  /\ ProcessExit(ExitStatus(code))
  /\ UNCHANGED <<nextSid, bcastLog, buffer, stream, chunkCnt, sends, joined, seen,
                 childStdin, inbound>>

\* a message posted by a session: the text of one JSON string, one string
\* per character
SessionMessages == { <<"a">>, <<"LF">>, <<"a", "LF", "Q">> }

\* mutant: the text is written without escaping
JsonStringify_Raw(msg) == <<"Q">> \o msg \o <<"Q">>

\* JSON.stringify(msg): quotes around the text, with a line feed, a quote and
\* a backslash inside it written as the escapes \n, \" and \\
RECURSIVE Escape(_)
Escape(text) ==
  IF text = <<>> THEN <<>>
  ELSE (CASE Head(text) = "LF" -> <<"BS", "n">>
          [] Head(text) = "Q"  -> <<"BS", "Q">>
          [] Head(text) = "BS" -> <<"BS", "BS">>
          [] OTHER             -> <<Head(text)>>) \o Escape(Tail(text))
JsonStringify(msg) == <<"Q">> \o Escape(msg) \o <<"Q">>

\* sseTransport.onmessage: lines 164-169; the transport calls it with the
\* message of a POST that messageHandler passed to handlePostMessage
SseTransportOnMessage(sid, msg) ==
  /\ proc.alive
  /\ Len(inbound) < MaxInbound
  /\ inbound' = Append(inbound, [sid |-> sid, msg |-> msg])
  /\ childStdin' = childStdin \o JsonStringify(msg) \o <<"LF">>
  /\ UNCHANGED <<sessions, nextSid, timers, bcastLog, buffer, stream, chunkCnt, sends,
                 joined, seen, child, proc>>

\* req.query.sessionId of a POST: absent, the id of a session that
\* connected, or an id no session ever had
NoSessionId == 0
SessionIds == 0..(MaxSessions + 1)

\* mutant: every id that was ever handed out is accepted
SessionLookup_Ever(sessionId) == sessionId \in 1..nextSid

\* const session = sessions[sessionId]; if (session?.transport?.handlePostMessage)
SessionLookup(sessionId) == sessionId \in DOMAIN sessions

Reply(sessionId, status) == [sessionId |-> sessionId, status |-> status]

\* messageHandler: lines 198-220; handlePostMessage hands the posted message
\* to sseTransport.onmessage and answers the POST itself
MessageHandler(sessionId, msg) ==
  /\ proc.alive
  /\ Len(replies) < MaxInbound
  /\ IF sessionId = NoSessionId
       THEN /\ replies' = Append(replies, Reply(sessionId, "400"))
            /\ UNCHANGED <<sessions, nextSid, timers, bcastLog, buffer, stream, chunkCnt,
                           sends, joined, seen, child, proc, childStdin, inbound>>
       ELSE IF SessionLookup(sessionId)
              THEN /\ SseTransportOnMessage(sessionId, msg)
                   /\ replies' = Append(replies, Reply(sessionId, "transport"))
              ELSE /\ replies' = Append(replies, Reply(sessionId, "503"))
                   /\ UNCHANGED <<sessions, nextSid, timers, bcastLog, buffer, stream,
                                  chunkCnt, sends, joined, seen, child, proc, childStdin,
                                  inbound>>

\* the bytes a child may write to stdout
Bytes == {"1", "SP", "CR", "LF", "H", "T"}
RECURSIVE SeqsUpTo(_, _)
SeqsUpTo(S, n) ==
  IF n = 0 THEN {<<>>}
  ELSE LET shorter == SeqsUpTo(S, n - 1)
       IN  shorter \cup { Append(q, x) : q \in { r \in shorter : Len(r) = n - 1 }, x \in S }
ByteStreams == SeqsUpTo(Bytes, MaxStreamLen)

----------------------------------------------------------------------------
(* MCPServer router: src/server/expressMiddleware.ts *)

\* the JSON-RPC requests a client posts to the message path
McpRequests == { Request(1, "tools/call", "p"), Request(2, "tools/list", NoParams) }

Posted(sessionId, message, status) ==
  [sessionId |-> sessionId, message |-> message, status |-> status]

\* router.get(ssePath, ...): lines 133-176; the transport gets a fresh session
\* id, server.connect(transport) makes it the server's transport and starts
\* it, which writes the endpoint event on the stream
McpSseGet ==
  /\ sseCount < MaxSessions
  /\ sseCount' = sseCount + 1
  /\ openSse' = openSse \cup {sseCount + 1}
  /\ pingIntervals' = pingIntervals \cup {sseCount + 1}
  /\ serverTransport' = sseCount + 1
  /\ sseStreams' = Append(sseStreams, <<"endpoint">>)
  /\ UNCHANGED <<posted, serverIn>>

\* req.on('close', ...): lines 163-166
McpReqOnClose(sid) ==
  /\ sid \in openSse
  /\ openSse' = openSse \ {sid}
  /\ pingIntervals' = pingIntervals \ {sid}
  /\ UNCHANGED <<sseCount, serverTransport, sseStreams, posted, serverIn>>

\* the setInterval callback: lines 154-160; the ping is a comment line, no
\* event; res.write may throw
McpPing(sid, writeThrows) ==
  /\ sid \in pingIntervals
  /\ pingIntervals' = IF writeThrows THEN pingIntervals \ {sid} ELSE pingIntervals
  /\ UNCHANGED <<sseCount, openSse, serverTransport, sseStreams, posted, serverIn>>

\* router.post(messagePath, ...): lines 179-195; the handler answers 400
\* without a sessionId and 200 'OK' otherwise, and returns
McpPostMessage(sessionId, message) ==
  /\ Len(posted) < MaxInbound
  /\ posted' = Append(posted, Posted(sessionId, message,
                                     IF sessionId = NoSessionId THEN "400" ELSE "200"))
  /\ UNCHANGED <<sseCount, openSse, pingIntervals, serverTransport, sseStreams, serverIn>>

----------------------------------------------------------------------------
(* stdin-to-POST client: the express-mcp script of unnamed/part_001 *)

\* the characters that arrive on stdin: the digit of a JSON number, the line
\* feed, and a letter that is no JSON
StdinChars == {"1", "LF", "x"}
StdinTexts == SeqsUpTo(StdinChars, MaxStdinLen)

\* chunk.toString().split('\n'): the segments between the line feeds, the
\* last one being the text after the last line feed
RECURSIVE SplitLFFrom(_, _, _)
SplitLFFrom(s, i, cur) ==
  IF i > Len(s) THEN <<cur>>
  ELSE IF s[i] = "LF" THEN <<cur>> \o SplitLFFrom(s, i + 1, <<>>)
  ELSE SplitLFFrom(s, i + 1, Append(cur, s[i]))
SplitLF(s) == SplitLFFrom(s, 1, <<>>)

\* the lines for which the loop body reaches fetch: not blank (line 223) and
\* accepted by JSON.parse (line 227); the others are skipped or logged
Postable(lines) ==
  SelectSeq(lines, LAMBDA line : Trim(line) # <<>> /\ JsonParse(line).ok)

\* a line tagged with its ordinal among the postable lines read so far
Tagged(lines, from) == [k \in 1..Len(lines) |-> [idx |-> from + k, body |-> lines[k]]]

\* const lines = chunk.toString().split('\n')
ChunkLines(chunk) == SplitLF(chunk)

\* the listener of 'data' up to its first await (lines 219-253): it is called
\* for every chunk as it arrives, whatever earlier calls are waiting for; the
\* lines of the chunk are taken in order, the fetch of the first postable one
\* is started and the loop waits for it
StdinOnData(chunk) ==
  /\ chunk # <<>>
  /\ chunk = SubSeq(stdinLeft, 1, Len(chunk))
  /\ stdinLeft' = SubSeq(stdinLeft, Len(chunk) + 1, Len(stdinLeft))
  /\ LET todo == Tagged(Postable(ChunkLines(chunk)), linesRead) IN
       /\ linesRead' = linesRead + Len(todo)
       /\ IF todo = <<>>
            THEN UNCHANGED <<fetches, loops>>
            ELSE /\ fetches' = Append(fetches, Head(todo))
                 /\ loops' = Append(loops, [rest |-> Tail(todo), awaiting |-> TRUE])
  /\ UNCHANGED stdinText

\* `await fetch(...)` of loop h settles, with a response or an error (both
\* are only logged): the loop goes on to its next postable line and starts
\* that fetch, or ends
FetchSettles(h) ==
  /\ h \in 1..Len(loops)
  /\ loops[h].awaiting
  /\ IF loops[h].rest = <<>>
       THEN /\ loops' = [loops EXCEPT ![h].awaiting = FALSE]
            /\ UNCHANGED fetches
       ELSE /\ fetches' = Append(fetches, Head(loops[h].rest))
            /\ loops' = [loops EXCEPT ![h].rest = Tail(@)]
  /\ UNCHANGED <<stdinText, stdinLeft, linesRead>>

----------------------------------------------------------------------------
(* Initial states and specifications *)

\* part_002 after `await sseClient.connect(sseTransport)`: the SDK client has
\* used the ids 0 (initialize) and 1 (tools/list) and holds sseTransport.onmessage
InitPipe ==
  /\ sseOnMessage = "client"
  /\ clientNextId = 2
  /\ clientReqs = <<>>
  /\ actualTools = "none"
  /\ stdioIn = <<>>
  /\ sseOut = <<>>
  /\ stdioOut = <<>>
  /\ sseCnt = 0

\* the router after MCPServer(...) returned it: no connection yet
InitMcp ==
  /\ sseCount = 0
  /\ openSse = {}
  /\ pingIntervals = {}
  /\ serverTransport = 0
  /\ sseStreams = <<>>
  /\ posted = <<>>
  /\ serverIn = <<>>

\* the script before the first chunk of stdin: one of the texts is about to
\* arrive
InitClient ==
  /\ stdinText \in StdinTexts
  /\ stdinLeft = stdinText
  /\ fetches = <<>>
  /\ loops = <<>>
  /\ linesRead = 0

\* no stdin-to-POST client runs
InitNoClient ==
  /\ stdinText = <<>>
  /\ stdinLeft = <<>>
  /\ fetches = <<>>
  /\ loops = <<>>
  /\ linesRead = 0

InitRelay ==
  /\ localIn = <<>>
  /\ reqs = <<>>
  /\ chain = <<>>
  /\ toRemote = <<>>
  /\ toLocal = <<>>
  /\ remoteCnt = 0
  /\ lastEvent = Event("init", Notification("-"), 0)
  /\ relay = [phase |-> "running", status |-> 0]
  /\ serverInfo = "srvA"

\* main before the connect to the remote peer
InitStartup ==
  /\ localIn = <<>>
  /\ reqs = <<>>
  /\ chain = <<>>
  /\ toRemote = <<>>
  /\ toLocal = <<>>
  /\ remoteCnt = 0
  /\ lastEvent = Event("init", Notification("-"), 0)
  /\ relay = [phase |-> "connecting", status |-> 0]
  /\ serverInfo = "undefined"

InitBridge ==
  /\ sessions = <<>>
  /\ nextSid = 0
  /\ timers = {}
  /\ bcastLog = <<>>
  /\ buffer = <<>>
  /\ stream = <<>>
  /\ chunkCnt = 0
  /\ sends = <<>>
  /\ joined = <<>>
  /\ seen = <<>>
  /\ child = [exited |-> FALSE, code |-> 0]
  /\ proc = [alive |-> TRUE, status |-> 0]
  /\ childStdin = <<>>
  /\ inbound = <<>>
  /\ replies = <<>>
  /\ stalled = {}
  /\ removals = [s \in 1..MaxSessions |-> 0]

InitFanout == InitBridge /\ toWrite = <<>>

Init == InitRelay /\ InitFanout /\ InitPipe /\ InitMcp /\ InitNoClient

\* the child is about to write one of the byte streams
InitReader == InitRelay /\ InitBridge /\ InitPipe /\ InitMcp /\ InitNoClient /\ toWrite \in ByteStreams

NextRelay ==
  \/ \E message \in LocalMessages : StdioOnMessage(message) /\ UNCHANGED notRelay
  \/ \E msg \in RemoteMessages : SseOnMessage(msg) /\ UNCHANGED notRelay
  \/ \E n \in 1..MaxLocal : TimeoutFires(n) /\ UNCHANGED notRelay

SpecRelay == Init /\ [][NextRelay]_vars

\* the relay from its start to its end, with fewer kinds of message
LifecycleLocal ==
  { Request(1, "foo", "p"), Request(3, "foo", "q"), Request(2, "initialize", "p"),
    Notification("note") }
LifecycleRemote ==
  { ResultResponse(1, "objOk"), ResultResponse(3, "objOk"), Notification("progress") }

NextLifecycle ==
  \/ \E info \in ConnectResults : Connect(info) /\ UNCHANGED notRelay
  \/ ConnectFails /\ UNCHANGED notRelay
  \/ SseTransportOnError /\ UNCHANGED notRelay
  \/ SseTransportOnClose /\ UNCHANGED notRelay
  \/ \E message \in LifecycleLocal : StdioOnMessage(message) /\ UNCHANGED notRelay
  \/ \E msg \in LifecycleRemote : SseOnMessage(msg) /\ UNCHANGED notRelay
  \/ \E n \in 1..MaxLocal : TimeoutFires(n) /\ UNCHANGED notRelay

InitLifecycle == InitStartup /\ InitFanout /\ InitPipe /\ InitMcp /\ InitNoClient
SpecLifecycle == InitLifecycle /\ [][NextLifecycle]_vars

NextPipe ==
  \/ \E tools \in ToolLists : ToolsListResult(tools) /\ UNCHANGED notPipe
  \/ ToolsListFails /\ UNCHANGED notPipe
  \/ \E message \in PipeLocal : PipeStdioOnMessage(message) /\ UNCHANGED notPipe
  \/ \E msg \in PipeRemote : PipeSseOnMessage(msg) /\ UNCHANGED notPipe
  \/ \E k \in 1..MaxLocal : ClientRequestTimeout(k) /\ UNCHANGED notPipe

SpecPipe == Init /\ [][NextPipe]_vars

\* a POST arrives at the message path
PostStep ==
  \E sessionId \in SessionIds, message \in McpRequests :
    McpPostMessage(sessionId, message) /\ UNCHANGED notMcp

NextMcp ==
  \/ McpSseGet /\ UNCHANGED notMcp
  \/ \E sid \in 1..MaxSessions : McpReqOnClose(sid) /\ UNCHANGED notMcp
  \/ \E sid \in 1..MaxSessions, writeThrows \in BOOLEAN :
       McpPing(sid, writeThrows) /\ UNCHANGED notMcp
  \/ PostStep

SpecMcp == Init /\ [][NextMcp]_vars

\* Express runs the handler of every POST that arrived
FairMcp == Init /\ [][NextMcp]_vars /\ WF_vars(PostStep)

\* stdin is about to deliver one of the texts, cut into chunks in any way
InitStdin ==
  InitRelay /\ InitFanout /\ InitPipe /\ InitMcp /\ InitClient

NextStdin ==
  \/ \E n \in 1..Len(stdinLeft) : StdinOnData(SubSeq(stdinLeft, 1, n)) /\ UNCHANGED notClient
  \/ \E h \in 1..MaxStdinLen : FetchSettles(h) /\ UNCHANGED notClient

SpecStdin == InitStdin /\ [][NextStdin]_vars

NextFanout ==
  \/ \E endpoint \in Endpoints : SseConnect(endpoint) /\ UNCHANGED <<toWrite, replies, stalled>> /\ UNCHANGED <<removals>> /\ UNCHANGED notFanout
  \/ \E sid \in 1..MaxSessions : TransportOnClose(sid) /\ UNCHANGED <<toWrite, replies, stalled>> /\ UNCHANGED <<removals>> /\ UNCHANGED notFanout
  \/ \E sid \in 1..MaxSessions : TransportOnError(sid) /\ UNCHANGED <<toWrite, replies, stalled>> /\ UNCHANGED <<removals>> /\ UNCHANGED notFanout
  \/ \E sid \in 1..MaxSessions : ReqOnClose(sid) /\ UNCHANGED <<toWrite, replies, stalled>> /\ UNCHANGED <<removals>> /\ UNCHANGED notFanout
  \/ \E sid \in 1..MaxSessions, writeThrows \in BOOLEAN :
       KeepAlive(sid, writeThrows) /\ UNCHANGED <<toWrite, replies, stalled>> /\ UNCHANGED <<removals>> /\ UNCHANGED notFanout
  \/ \E chunk \in Chunks :
       chunkCnt < MaxChunks /\ ChildStdoutData(chunk) /\ UNCHANGED <<toWrite, replies, stalled>> /\ UNCHANGED <<removals>> /\ UNCHANGED notFanout
  \/ \E code \in ExitCodes : ChildOnExit(code) /\ UNCHANGED <<toWrite, replies, stalled>> /\ UNCHANGED <<removals>> /\ UNCHANGED notFanout

SpecFanout == Init /\ [][NextFanout]_vars

\* the sessions' messages on their way to the child
NextInbound ==
  \/ \E endpoint \in Endpoints : SseConnect(endpoint) /\ UNCHANGED <<toWrite, replies, stalled>> /\ UNCHANGED <<removals>> /\ UNCHANGED notFanout
  \/ \E sid \in 1..MaxSessions : ReqOnClose(sid) /\ UNCHANGED <<toWrite, replies, stalled>> /\ UNCHANGED <<removals>> /\ UNCHANGED notFanout
  \/ \E sessionId \in SessionIds, msg \in SessionMessages :
       MessageHandler(sessionId, msg) /\ UNCHANGED <<toWrite, stalled>> /\ UNCHANGED <<removals>> /\ UNCHANGED notFanout
  \/ \E code \in ExitCodes : ChildOnExit(code) /\ UNCHANGED <<toWrite, replies, stalled>> /\ UNCHANGED <<removals>> /\ UNCHANGED notFanout

SpecInbound == Init /\ [][NextInbound]_vars

\* the bridge with sessions whose client stops reading
DataStep ==
  \E chunk \in Chunks :
    chunkCnt < MaxChunks /\ ChildStdoutData(chunk) /\ UNCHANGED <<toWrite, replies, stalled>>
      /\ UNCHANGED <<removals>> /\ UNCHANGED notFanout

NextSlowSink ==
  \/ \E endpoint \in Endpoints :
       SseConnect(endpoint) /\ UNCHANGED <<toWrite, replies, stalled>> /\ UNCHANGED <<removals>> /\ UNCHANGED notFanout
  \/ \E sid \in 1..MaxSessions :
       SinkStalls(sid) /\ UNCHANGED <<toWrite, replies>> /\ UNCHANGED <<removals>> /\ UNCHANGED notFanout
  \/ \E sid \in 1..MaxSessions :
       ReqOnClose(sid) /\ UNCHANGED <<toWrite, replies, stalled>> /\ UNCHANGED <<removals>> /\ UNCHANGED notFanout
  \/ DataStep

SpecSlowSink == Init /\ [][NextSlowSink]_vars

\* the stdout handler runs whenever a chunk is there; a client closing its
\* connection is not something the bridge can count on
FairSlowSink == Init /\ [][NextSlowSink]_vars /\ WF_vars(DataStep)

\* the registry under registrations, close and error events and failed
\* sends, with the events of each session counted
Removal(sid) ==
  /\ removals[sid] < MaxRemovals
  /\ removals' = [removals EXCEPT ![sid] = @ + 1]

NextRegistry ==
  \/ \E endpoint \in Endpoints :
       SseConnect(endpoint) /\ UNCHANGED <<toWrite, replies, stalled>>
         /\ UNCHANGED <<removals>> /\ UNCHANGED notFanout
  \/ \E sid \in 1..MaxSessions :
       TransportOnClose(sid) /\ Removal(sid) /\ UNCHANGED <<toWrite, replies, stalled>>
         /\ UNCHANGED notFanout
  \/ \E sid \in 1..MaxSessions :
       TransportOnError(sid) /\ Removal(sid) /\ UNCHANGED <<toWrite, replies, stalled>>
         /\ UNCHANGED notFanout
  \/ \E sid \in 1..MaxSessions :
       ReqOnClose(sid) /\ Removal(sid) /\ UNCHANGED <<toWrite, replies, stalled>>
         /\ UNCHANGED notFanout
  \/ DataStep

SpecRegistry == Init /\ [][NextRegistry]_vars

\* the stdout reader fed one byte stream, cut into chunks in every way
NextReader ==
  \/ \E n \in 1..Len(toWrite) :
       /\ ChildStdoutData(SubSeq(toWrite, 1, n))
       /\ toWrite' = SubSeq(toWrite, n + 1, Len(toWrite))
       /\ UNCHANGED <<replies, stalled>>
       /\ UNCHANGED <<removals>> /\ UNCHANGED notFanout

SpecReader == InitReader /\ [][NextReader]_vars

\* the stdout reader and the exit of the child, which may come before the
\* child has written everything
NextTail ==
  \/ NextReader
  \/ \E code \in ExitCodes :
       ChildOnExit(code) /\ UNCHANGED <<toWrite, replies, stalled, removals>>
         /\ UNCHANGED notFanout

SpecTail == InitReader /\ [][NextTail]_vars


----------------------------------------------------------------------------
(* Properties of the correlated relay *)

Forwarded   == 1..Len(reqs)
Pending(n)  == reqs[n].state = "pending"
WrittenFor(n) == { k \in 1..Len(toLocal) : toLocal[k].for = n }
TimeoutResponse(i) == ErrorResponse(i, Err(-32001, "Request timed out"))
TimedOut(n) == \E k \in WrittenFor(n) : toLocal[k].msg = TimeoutResponse(reqs[n].id)
NewestWithId(i) ==
  LET S == { n \in Forwarded : reqs[n].id = i }
  IN  IF S = {} THEN 0 ELSE CHOOSE n \in S : \A j \in S : j <= n
RemoteStep  == lastEvent'.kind = "remote"
TimeoutStep == lastEvent'.kind = "timeout"

C2_ExactlyOneResponse ==
  \A n \in Forwarded :
    /\ Cardinality(WrittenFor(n)) = (IF Pending(n) THEN 0 ELSE 1)
    /\ reqs[n].timerFired => ~Pending(n)
    /\ \A k \in WrittenFor(n) :
         /\ toLocal[k].msg.id = reqs[n].id
         /\ ~HasMethod(toLocal[k].msg)
         /\ HasResult(toLocal[k].msg) # HasError(toLocal[k].msg)

\* a request was answered by the remote peer and its timer fired afterwards
C2_Witness ==
  \E n \in Forwarded :
    /\ reqs[n].timerFired /\ reqs[n].state = "resolved"
    /\ Cardinality(WrittenFor(n)) = 1
    /\ \E m \in Forwarded : m # n /\ TimedOut(m)

\* C6: the requests sent to the remote peer are exactly the requests of the
\* local peer whose method is not 'initialize', one for one, in order, with
\* the id, method and params they arrived with.
C6_ForwardedOnceUnchanged ==
  LET NotInitialize(m) == HasMethod(m) /\ HasId(m) /\ m.method # "initialize"
      IsReq(m) == HasMethod(m) /\ HasId(m)
  IN  SelectSeq(toRemote, IsReq) = SelectSeq(localIn, NotInitialize)

\* the local peer sent an initialize request and two other requests
C6_Witness ==
  /\ \E k \in 1..Len(localIn) : localIn[k].method = "initialize"
  /\ \E k \in 1..Len(localIn) : localIn[k] = Request(3, "foo", "q")
  /\ \E k \in 1..Len(localIn) : localIn[k] = Request(2, "foo", "p")
  /\ Len(toRemote) = 2

\* C7 (as claimed): a remote response with a result R that matches the
\* outstanding request X makes the relay write {id: X, result: R}.
C7_ResultRelayedUnchanged ==
  [][ (RemoteStep /\ HasResult(lastEvent'.msg) /\ ~HasError(lastEvent'.msg)
         /\ lastEvent'.n # 0 /\ Pending(lastEvent'.n))
        => toLocal' = Append(toLocal,
             Written(ResultResponse(lastEvent'.msg.id, lastEvent'.msg.result),
                     lastEvent'.n))
    ]_vars

\* C8: when the timer of a pending request X fires, the local peer is
\* written the error response {id: X, code -32001, 'Request timed out'};
\* a remote message with id X that arrives when X has timed out and no
\* request X is pending writes nothing and changes no relay state.
C8_TimeoutThenLateResponseDropped ==
  [][ /\ (TimeoutStep /\ Pending(lastEvent'.n))
           => /\ toLocal' = Append(toLocal,
                   Written(TimeoutResponse(reqs[lastEvent'.n].id), lastEvent'.n))
              /\ reqs'[lastEvent'.n].state = "rejected"
      /\ (RemoteStep /\ HasId(lastEvent'.msg)
            /\ (\E n \in Forwarded : reqs[n].id = lastEvent'.msg.id /\ TimedOut(n))
            /\ ~(\E n \in Forwarded : reqs[n].id = lastEvent'.msg.id /\ Pending(n)))
           => UNCHANGED <<toLocal, reqs, chain, toRemote, localIn>>
    ]_vars

\* a response arrived for a request that had timed out
C8_Witness ==
  /\ lastEvent.kind = "remote" /\ lastEvent.n # 0
  /\ ~HasMethod(lastEvent.msg)
  /\ TimedOut(lastEvent.n)
  /\ Cardinality(WrittenFor(lastEvent.n)) = 1

\* C9 (as claimed): at most one pending request is tracked per id.
C9_OnePendingPerId ==
  \A a, b \in Forwarded :
    (a # b /\ reqs[a].id = reqs[b].id) => ~(Pending(a) /\ Pending(b))

\* C9 (amended): a request whose id was reused by a newer request stays
\* tracked with its handler in the chain and its timer active; no remote
\* message settles it any more, it is settled by its own timeout, which
\* writes the timeout error with its id; the remote message with that id
\* settles the newest request sent with it.
C9_ReusedIdBothTracked ==
  /\ [][ \A a \in Forwarded :
           ((\E b \in Forwarded : b > a /\ reqs[b].id = reqs[a].id)
              /\ Pending(a) /\ reqs'[a].state # "pending")
             => /\ TimeoutStep /\ lastEvent'.n = a
                /\ toLocal' = Append(toLocal, Written(TimeoutResponse(reqs[a].id), a))
       ]_vars
  /\ [][ (RemoteStep /\ HasId(lastEvent'.msg) /\ lastEvent'.n # 0)
           => lastEvent'.n = NewestWithId(lastEvent'.msg.id) ]_vars
  /\ [](\A n \in Forwarded : \E k \in 1..Len(chain) : chain[k] = n)

\* id reused while outstanding: the newer request got the response, the
\* older one timed out afterwards
C9_Witness ==
  /\ Len(reqs) >= 2
  /\ reqs[1].id = reqs[2].id
  /\ reqs[2].state = "resolved" /\ ~reqs[2].timerFired
  /\ TimedOut(1)
  /\ Len(toLocal) = 2 /\ toLocal[1].for = 2 /\ toLocal[2].for = 1


LocalStep == lastEvent'.kind = "local"
IsNotification(m) == HasMethod(m) /\ ~HasId(m)

\* C23: a notification from the local peer is sent to the remote peer as it
\* is, and a notification from the remote peer is written to the local peer
\* as it is; neither adds a tracked request or a handler, settles a request
\* or writes anything else.
C23_NotificationsPassThrough ==
  [][/\ (LocalStep /\ IsNotification(lastEvent'.msg))
          => /\ toRemote' = Append(toRemote, lastEvent'.msg)
             /\ UNCHANGED <<reqs, chain, toLocal>>
     /\ (RemoteStep /\ IsNotification(lastEvent'.msg))
          => /\ toLocal' = Append(toLocal, Written(lastEvent'.msg, 0))
             /\ UNCHANGED <<reqs, chain, toRemote>>]_vars

\* with a request pending, a notification went each way and the request is
\* still pending
C23_Witness ==
  /\ Len(reqs) = 1 /\ Pending(1)
  /\ toRemote = <<SseRequest(localIn[1]), Notification("note")>>
  /\ toLocal = <<Written(Notification("progress"), 0)>>


\* C24: no 'initialize' request is sent to the remote peer; the relay
\* answers an 'initialize' request of the local peer at once with a result
\* response that has the request's id and is built from what the connect to
\* the remote peer returned, and tracks no request for it.
C24_InitializeAnsweredLocally ==
  /\ [](\A k \in 1..Len(toRemote) :
          ~(HasId(toRemote[k]) /\ toRemote[k].method = "initialize"))
  /\ [][(LocalStep /\ HasId(lastEvent'.msg) /\ lastEvent'.msg.method = "initialize")
          => /\ serverInfo \in ConnectResults
             /\ toLocal' = Append(toLocal,
                               Written(ResultResponse(lastEvent'.msg.id, serverInfo), 0))
             /\ UNCHANGED <<toRemote, reqs, chain>>]_vars

\* the connect returned the second server's info, and an 'initialize'
\* request with id 2 was answered with it while nothing was sent on
C24_Witness ==
  /\ serverInfo = "srvB"
  /\ localIn = <<Request(2, "initialize", "p")>>
  /\ toLocal = <<Written(ResultResponse(2, "srvB"), 0)>>
  /\ toRemote = <<>> /\ reqs = <<>>

ExitStep == lastEvent'.kind \in {"fatal", "error", "close"}

\* C25: when the connect fails or the remote transport reports an error or
\* a close, the relay process ends with status 1 and writes nothing; once
\* ended it stays ended: it connects no more, sends nothing to the remote
\* peer and writes nothing to the local peer.
C25_TransportFailureEndsRelay ==
  /\ [][ExitStep => /\ relay' = [phase |-> "exited", status |-> 1]
                    /\ UNCHANGED <<toLocal, toRemote>>]_vars
  /\ [][relay.phase = "exited" => UNCHANGED <<relay, toLocal, toRemote, reqs, chain>>]_vars
  /\ [](relay.phase = "exited" => relay.status = 1)

\* the remote transport closed while a forwarded request was pending, and
\* the local peer was written nothing
C25_Witness ==
  /\ relay = [phase |-> "exited", status |-> 1]
  /\ lastEvent.kind = "close"
  /\ Len(reqs) = 1 /\ Pending(1)
  /\ toLocal = <<>>


\* a request has timed out
SomeTimedOut == \E n \in Forwarded : TimedOut(n)

\* C26: the timeout of a request leaves the relay running and every other
\* tracked request, the handlers and what was sent to the remote peer as
\* they were; after a timeout a request from the local peer is still sent
\* on and tracked, a notification still passes in either direction, and a
\* response still settles the pending request it is for.
C26_TimeoutNotFatal ==
  /\ [][TimeoutStep =>
          /\ relay' = relay /\ relay.phase = "running"
          /\ chain' = chain /\ toRemote' = toRemote
          /\ Len(reqs') = Len(reqs)
          /\ \A j \in Forwarded : j # lastEvent'.n => reqs'[j] = reqs[j]]_vars
  /\ [][(SomeTimedOut /\ LocalStep) =>
          LET msg == lastEvent'.msg IN
            /\ (HasId(msg) /\ HasMethod(msg) /\ msg.method # "initialize")
                 => /\ toRemote' = Append(toRemote, msg)
                    /\ Len(reqs') = Len(reqs) + 1
                    /\ reqs'[Len(reqs')].state = "pending"
            /\ IsNotification(msg) => toRemote' = Append(toRemote, msg)]_vars
  /\ [][(SomeTimedOut /\ RemoteStep) =>
          LET msg == lastEvent'.msg IN
            /\ IsNotification(msg) => toLocal' = Append(toLocal, Written(msg, 0))
            /\ (HasId(msg) /\ NewestWithId(msg.id) # 0 /\ Pending(NewestWithId(msg.id)))
                 => /\ Len(toLocal') = Len(toLocal) + 1
                    /\ toLocal'[Len(toLocal')].for = NewestWithId(msg.id)
                    /\ toLocal'[Len(toLocal')].msg.id = msg.id
                    /\ reqs'[NewestWithId(msg.id)].state # "pending"]_vars

\* the first request timed out; a second request, whose timer has not
\* fired, was then answered by the remote peer and the answer written
C26_Witness ==
  /\ relay.phase = "running"
  /\ Len(reqs) = 2
  /\ TimedOut(1)
  /\ reqs[2].state = "resolved" /\ ~reqs[2].timerFired
  /\ Len(toLocal) = 2
  /\ toLocal[1].for = 1 /\ toLocal[2].for = 2
  /\ toLocal[2].msg = ResultResponse(reqs[2].id, "objOk")


\* C33: once the response that matches a forwarded request has been taken by
\* that request's one-time handler, the handler is no longer in the chain of
\* sseTransport.onmessage, and the chain never holds the handler of a request
\* that a response has resolved.
C33_HandlerRemovedAfterResponse ==
  /\ [][(RemoteStep /\ lastEvent'.n # 0) =>
          \A k \in 1..Len(chain') : chain'[k] # lastEvent'.n]_vars
  /\ [](\A k \in 1..Len(chain) : reqs[chain[k]].state # "resolved")

\* C34: a remote error response with id X that matches the outstanding
\* request X makes the relay write the error response {id: X, error} with the
\* code and the message of the remote's error.
C34_RemoteErrorRelayedUnchanged ==
  [][ (RemoteStep /\ HasError(lastEvent'.msg)
         /\ lastEvent'.n # 0 /\ Pending(lastEvent'.n))
        => toLocal' = Append(toLocal,
             Written(ErrorResponse(lastEvent'.msg.id, lastEvent'.msg.error),
                     lastEvent'.n))
    ]_vars

\* C35: a request of the remote peer (a message with a method and an id) is
\* never written to the local peer and nothing is sent to the remote peer for
\* it.  When its id is that of no pending request the relay writes nothing at
\* all; when its id is that of a pending request of the local peer, all the
\* local peer is written is the response {id, result: null} to its own request.
C35_RemoteRequestDropped ==
  [][ (RemoteStep /\ IsRequest(lastEvent'.msg)) =>
        /\ toRemote' = toRemote
        /\ \A k \in 1..Len(toLocal') : toLocal'[k].msg # lastEvent'.msg
        /\ IF lastEvent'.n # 0 /\ Pending(lastEvent'.n)
             THEN toLocal' = Append(toLocal,
                    Written(ResultResponse(lastEvent'.msg.id, "null"), lastEvent'.n))
             ELSE toLocal' = toLocal
    ]_vars

\* a remote request with the id of a pending local request was handled: the
\* request of the local peer had been sent on and is now resolved
C35_Witness ==
  /\ lastEvent.kind = "remote"
  /\ IsRequest(lastEvent.msg)
  /\ lastEvent.n # 0
  /\ reqs[lastEvent.n].state = "resolved"
  /\ toRemote # <<>>


----------------------------------------------------------------------------
(* Properties of the fan-out bridge *)

Broadcasts   == 1..Len(bcastLog)
MessageOf(e) == JsonParse(e.line).value
SentTo(e)    == { p[1] : p \in e.sent }
AllButLast(q) == SubSeq(q, 1, Len(q) - 1)

\* C3: in every broadcast in which the send to a session failed, the
\* message of that broadcast was still sent to every other session that was
\* registered when the broadcast started.
C3_BroadcastIsolation ==
  \A k \in Broadcasts :
    LET e == bcastLog[k] IN
      \A f \in e.failed :
        \A s \in e.registry \ {f} : <<s, MessageOf(e)>> \in e.sent

\* the send to session 1 failed and session 2, later in the loop, was sent
\* the message and stays registered
C3_Witness ==
  \E k \in Broadcasts :
    /\ bcastLog[k].registry = {1, 2}
    /\ bcastLog[k].failed = {1}
    /\ <<2, MessageOf(bcastLog[k])>> \in bcastLog[k].sent
    /\ DOMAIN sessions = {2}

\* C4: a session whose send failed in a broadcast is not in the registry
\* after that broadcast, and no later broadcast sends to it.
C4_FailedSessionRemoved ==
  \A k \in Broadcasts :
    \A f \in bcastLog[k].failed :
      /\ f \notin DOMAIN sessions
      /\ \A j \in Broadcasts :
           j > k => (f \notin bcastLog[j].registry /\ f \notin SentTo(bcastLog[j]))

\* a broadcast with a failed send was followed by another broadcast
C4_Witness ==
  /\ Len(bcastLog) >= 2
  /\ bcastLog[1].failed = {1}
  /\ SentTo(bcastLog[2]) = {2}

\* C5: the lines broadcast are exactly the complete lines of the child's
\* stdout that are not blank and parse as JSON, in order; each is sent as
\* the one parsed value to every session that is in the registry when its
\* broadcast starts, whatever endpoint the session connected to.
C5_BroadcastToAllRegistered ==
  /\ [](/\ [k \in Broadcasts |-> bcastLog[k].line]
             = Broadcastable(AllButLast(Split(stream)))
        /\ \A k \in Broadcasts :
             bcastLog[k].sent
               = { <<s, MessageOf(bcastLog[k])>> : s \in bcastLog[k].registry })
  /\ [][ /\ Len(bcastLog') > Len(bcastLog)
              => bcastLog'[Len(bcastLog) + 1].registry = DOMAIN sessions
         /\ \A k \in (Len(bcastLog) + 2)..Len(bcastLog') :
              bcastLog'[k].registry = bcastLog'[k - 1].registry \ bcastLog'[k - 1].failed
     ]_vars

\* two sessions that connected to different endpoints were sent the same line
C5_Witness ==
  /\ DOMAIN sessions = {1, 2}
  /\ sessions[1] # sessions[2]
  /\ Len(bcastLog) >= 1
  /\ bcastLog[1].sent = { <<1, MessageOf(bcastLog[1])>>, <<2, MessageOf(bcastLog[1])>> }

\* C10 (as claimed): no keep-alive timer is active for a session that is not
\* in the registry.
C10_NoTimerWithoutSession == timers \subseteq DOMAIN sessions

\* C11 (as claimed): when the write of a keep-alive ping to a session
\* throws, the session is out of the registry as soon as the callback
\* returns.
C11_FailedPingRemovesSession ==
  [][\A sid \in 1..MaxSessions :
       KeepAlive(sid, TRUE) => sid \notin DOMAIN sessions']_vars

\* a close or error event of session sid is handled
TeardownStep(sid) == TransportOnClose(sid) \/ TransportOnError(sid) \/ ReqOnClose(sid)

\* C12: the handling of a close or error event of one session takes that
\* session's entry out of the registry and cancels its timer, and leaves
\* every other session's entry and timer, the child process and the bridge
\* process as they were; a session that is still registered was sent every
\* broadcast made since it registered.
C12_TeardownTouchesOneSession ==
  /\ [][\A sid \in 1..MaxSessions :
          TeardownStep(sid) =>
            /\ sid \notin DOMAIN sessions' /\ sid \notin timers'
            /\ DOMAIN sessions' = DOMAIN sessions \ {sid}
            /\ \A o \in DOMAIN sessions' : sessions'[o] = sessions[o]
            /\ timers' = timers \ {sid}
            /\ child' = child /\ proc' = proc]_vars
  /\ [](\A s \in DOMAIN sessions :
          \A n \in (joined[s] + 1)..Len(bcastLog) : s \in SentTo(bcastLog[n]))

\* session 1 was closed without any send having failed, and session 2, which
\* registered before the first broadcast, was sent it and keeps its timer
C12_Witness ==
  /\ joined = <<0, 0>>
  /\ DOMAIN sessions = {2} /\ 2 \in timers /\ 1 \notin timers
  /\ Len(bcastLog) >= 1
  /\ \A k \in Broadcasts : bcastLog[k].failed = {}
  /\ bcastLog[1].registry = {2}
  /\ SentTo(bcastLog[1]) = {2}
  /\ ~child.exited

\* C13: once the child has exited no session is registered and no timer is
\* active, and from its exit on no session is registered and no message is
\* sent to a session.
C13_NothingAfterChildExit ==
  /\ [](child.exited => DOMAIN sessions = {} /\ timers = {} /\ ~proc.alive)
  /\ [][child'.exited =>
          /\ nextSid' = nextSid
          /\ DOMAIN sessions' = {}
          /\ sends' = sends /\ bcastLog' = bcastLog]_vars

\* the child exited while a session was registered that had been sent a
\* message, and while another session could still have connected
C13_Witness ==
  /\ child.exited
  /\ nextSid >= 1 /\ nextSid < MaxSessions
  /\ Len(sends) >= 1
  /\ \A k \in Broadcasts : bcastLog[k].failed = {}

\* C14: when the child has exited with exit code c the bridge process has
\* ended with status c, also when c is 0; when the child was ended by a
\* signal and has no exit code, the bridge process has ended with status 1;
\* the bridge process ends in no other way.
C14_ExitStatusFollowsChild ==
  /\ child.exited <=> ~proc.alive
  /\ child.exited /\ child.code # NullCode => proc.status = child.code
  /\ child.exited /\ child.code = NullCode => proc.status = 1

\* a signal ended the child while a session was registered
C14_Witness ==
  /\ child.exited /\ child.code = NullCode
  /\ ~proc.alive /\ proc.status = 1
  /\ nextSid >= 1

\* the text of a JSON string literal as a reader of child.stdin parses it
\* back
RECURSIVE Unescape(_)
Unescape(t) ==
  IF t = <<>> THEN <<>>
  ELSE IF Head(t) = "BS" /\ Len(t) >= 2
         THEN <<(CASE t[2] = "n" -> "LF" [] OTHER -> t[2])>> \o Unescape(SubSeq(t, 3, Len(t)))
  ELSE <<Head(t)>> \o Unescape(Tail(t))
JsonUnquote(line) ==
  IF Len(line) >= 2 /\ line[1] = "Q" /\ line[Len(line)] = "Q"
    THEN Unescape(SubSeq(line, 2, Len(line) - 1))
    ELSE <<"invalid">>

\* C15: the text written to the child's stdin is a sequence of complete
\* lines, one for each message received from a session, in the order the
\* messages were received across all sessions; the k-th line parses back to
\* the k-th message, and nothing follows the last line's terminator.
C15_OneLinePerMessageInOrder ==
  LET split == Split(childStdin) IN
    /\ split[Len(split)] = <<>>
    /\ Len(split) - 1 = Len(inbound)
    /\ \A k \in 1..Len(inbound) : JsonUnquote(split[k]) = inbound[k].msg

\* two sessions posted one message each, the first with a line feed and a
\* quote in its text
C15_Witness ==
  /\ Len(inbound) = 2
  /\ inbound[1].sid = 2 /\ inbound[2].sid = 1
  /\ inbound[1].msg = <<"a", "LF", "Q">>
  /\ inbound[2].msg = <<"a">>
  /\ Len(Split(childStdin)) = 3

\* the lines of the child's stdout that are to be broadcast, in the order
\* the child wrote them
EmittedLines == Broadcastable(AllButLast(Split(ToStringUtf8(stream))))

\* C16: the messages are sent in the order in which the child wrote their
\* lines: every send carries the value of the line whose ordinal it has,
\* and every send of one line is made before any send of a later line, so
\* each session is sent its messages in the child's order.
C16_SendsInChildOrder ==
  /\ \A j \in 1..Len(sends) :
       /\ sends[j].n \in 1..Len(EmittedLines)
       /\ sends[j].msg = JsonParse(EmittedLines[sends[j].n]).value
  /\ \A i, j \in 1..Len(sends) : i < j => sends[i].n <= sends[j].n

\* two sessions were each sent two different messages out of one chunk
C16_Witness ==
  /\ Len(sends) = 4
  /\ sends[1].sid = 1 /\ sends[2].sid = 2 /\ sends[3].sid = 1 /\ sends[4].sid = 2
  /\ sends[1].msg # sends[3].msg
  /\ sends[2].n < sends[3].n

\* C17: no message is sent twice to one session, a session is sent only
\* messages broadcast after it registered, and registering a session sends
\* nothing.
C17_AtMostOnceNoReplay ==
  /\ [](/\ \A i, j \in 1..Len(sends) :
             i # j => ~(sends[i].sid = sends[j].sid /\ sends[i].n = sends[j].n)
        /\ \A j \in 1..Len(sends) : sends[j].n > joined[sends[j].sid])
  /\ [][nextSid' # nextSid => sends' = sends]_vars

\* session 2 registered after a message had been broadcast to session 1 and
\* was not sent it
C17_Witness ==
  /\ Len(joined) = 2 /\ joined[1] = 0 /\ joined[2] >= 1
  /\ 2 \in DOMAIN sessions
  /\ Len(sends) >= 1
  /\ \A j \in 1..Len(sends) : sends[j].sid = 1

\* the lines the reader hands to JSON.parse: those that are not blank
NonBlank(lines) == SelectSeq(lines, LAMBDA line : Trim(line) # <<>>)

\* the bytes end with a line terminator
Terminated(bytes) == bytes # <<>> /\ bytes[Len(bytes)] = "LF"

\* C18 (as claimed): when a stream of terminated lines has been received
\* whole, in whatever chunks, the non-blank lines the reader has produced
\* are those of the stream decoded and split as one piece.
C18_ChunkingIndependent ==
  (toWrite = <<>> /\ Terminated(stream))
    => NonBlank(seen) = NonBlank(AllButLast(Split(ToStringUtf8(stream))))

\* C19 (as claimed): the complete lines the reader has handled, followed by
\* its carry-over buffer, are the text of the bytes received so far split at
\* its terminators: no line is handled before its terminator arrived or in
\* two pieces, and nothing but terminators is missing.
C19_NoPartialLineNoLoss ==
  Split(ToStringUtf8(stream)) = seen \o <<buffer>>

\* the complete lines a step adds to those the reader has handled
NewLines == SubSeq(seen', Len(seen) + 1, Len(seen'))

\* C20: a line that is not valid JSON is never broadcast or sent; a chunk
\* whose complete lines are all blank or invalid leaves the registry, the
\* broadcasts and the sends as they were; the carry-over buffer is the text
\* after the last terminator whether or not an invalid line came before it;
\* and every valid line is broadcast, also one that follows an invalid line.
C20_NonJsonLineDiscarded ==
  /\ [](/\ \A k \in Broadcasts : JsonParse(bcastLog[k].line).ok
        /\ [k \in Broadcasts |-> bcastLog[k].line] = EmittedLines
        /\ LET split == Split(ToStringUtf8(stream)) IN buffer = split[Len(split)])
  /\ [][(chunkCnt' # chunkCnt /\ Broadcastable(NewLines) = <<>>)
          => (sessions' = sessions /\ bcastLog' = bcastLog /\ sends' = sends)]_vars

\* one chunk held an invalid line and then a valid one, and the valid one
\* was broadcast to the registered session, which stays registered
C20_Witness ==
  /\ seen = << <<"x">>, <<"1">> >>
  /\ chunkCnt = 1
  /\ Len(bcastLog) = 1 /\ bcastLog[1].line = <<"1">>
  /\ Len(sends) = 1 /\ sends[1].sid = 1
  /\ 1 \in DOMAIN sessions
  /\ buffer = <<>>

\* C21: a POST without a sessionId is answered 400 and a POST naming an id
\* that is not in the registry is answered 503; such a POST writes nothing
\* to the child's stdin, hands no message over, leaves the registry and the
\* timers as they were and leaves the bridge running.
C21_UnknownSessionRejected ==
  [][Len(replies') > Len(replies) =>
       LET r == replies'[Len(replies')] IN
         /\ r.sessionId = NoSessionId => r.status = "400"
         /\ (r.sessionId # NoSessionId /\ r.sessionId \notin DOMAIN sessions)
              => r.status = "503"
         /\ (r.sessionId = NoSessionId \/ r.sessionId \notin DOMAIN sessions)
              => /\ childStdin' = childStdin /\ inbound' = inbound
                 /\ sessions' = sessions /\ timers' = timers
                 /\ proc' = proc /\ proc.alive /\ child' = child]_vars

\* a POST without a sessionId and a POST to a session that had been closed
\* were both answered, and nothing reached the child
C21_Witness ==
  /\ Len(replies) = 2
  /\ replies[1] = Reply(NoSessionId, "400")
  /\ replies[2] = Reply(1, "503")
  /\ nextSid >= 1 /\ 1 \notin DOMAIN sessions
  /\ childStdin = <<>>
  /\ proc.alive

\* the sends whose promise has not settled
Unsettled == { j \in 1..Len(sends) : ~sends[j].settled }

\* C27: a send that never completes holds nothing up: every line the child
\* wrote that parses is broadcast, and every broadcast is sent to every
\* session in the registry when it starts, also to those that come after a
\* stalled session in the loop and also in broadcasts after the stalled send.
C27_StalledSendDoesNotBlock ==
  /\ [k \in Broadcasts |-> bcastLog[k].line] = EmittedLines
  /\ \A k \in Broadcasts :
       \A s \in bcastLog[k].registry :
         \E j \in 1..Len(sends) : sends[j].sid = s /\ sends[j].n = k
  /\ \A j \in Unsettled :
       \A k \in Broadcasts :
         k >= sends[j].n =>
           \A s \in bcastLog[k].registry \ {sends[j].sid} :
             \E i \in 1..Len(sends) :
               /\ sends[i].sid = s /\ sends[i].n = k
               /\ (k > sends[j].n \/ s > sends[j].sid) => i > j

\* the send of the first line to session 1 never completed; session 2 was
\* still sent that line, and both were sent the next line
C27_Witness ==
  /\ Len(bcastLog) = 2
  /\ Len(sends) = 4
  /\ sends[1].sid = 1 /\ ~sends[1].settled
  /\ sends[2].sid = 2 /\ sends[2].settled /\ sends[2].n = 1
  /\ sends[4].sid = 2 /\ sends[4].n = 2

\* C28 (as claimed): a session with a send that has not completed is
\* eventually out of the registry.
C28_StalledSessionRemoved ==
  \A sid \in 1..MaxSessions :
    (\E j \in Unsettled : sends[j].sid = sid) ~> (sid \notin DOMAIN sessions)

\* C29: the handling of a close or error event of a session that is not in
\* the registry leaves the registry, the other sessions' timers, the child,
\* the bridge process and everything sent so far as they were; all it does
\* is cancel that session's own timer should it still be active.
C29_RemovalIdempotent ==
  [][\A sid \in 1..MaxSessions :
       (TeardownStep(sid) /\ sid \notin DOMAIN sessions) =>
         /\ sessions' = sessions
         /\ timers' = timers \ {sid}
         /\ proc' = proc /\ proc.alive /\ child' = child
         /\ UNCHANGED <<nextSid, bcastLog, sends, buffer>>]_vars

\* two close or error events were handled for session 1, and session 2 is
\* registered with its timer active
C29_Witness ==
  /\ removals[1] >= 2
  /\ DOMAIN sessions = {2}
  /\ timers = {2}
  /\ proc.alive

\* the sessions that a close or error event or a failed send has removed
Removed ==
  { s \in 1..MaxSessions : removals[s] > 0 }
    \cup UNION { bcastLog[k].failed : k \in Broadcasts }

\* C30: the registry holds exactly the sessions that registered and were not
\* removed since, so their number is the number registered less the number
\* removed; and a broadcast is sent to exactly the sessions that had
\* registered and had not been removed when it started.
C30_RegistryIsRegisteredMinusRemoved ==
  /\ [](/\ DOMAIN sessions = (1..nextSid) \ Removed
        /\ Cardinality(DOMAIN sessions) = nextSid - Cardinality(Removed))
  /\ [][Len(bcastLog') > Len(bcastLog) =>
          SentTo(bcastLog'[Len(bcastLog) + 1]) = (1..nextSid) \ Removed]_vars

\* two sessions registered, the first was closed, and a broadcast made
\* afterwards was sent to the second only
C30_Witness ==
  /\ nextSid = 2 /\ joined = <<0, 0>>
  /\ removals[1] = 1
  /\ DOMAIN sessions = {2}
  /\ Len(bcastLog) >= 1
  /\ bcastLog[1].registry = {2} /\ SentTo(bcastLog[1]) = {2}

----------------------------------------------------------------------------
(* Properties of the relay through the SDK client *)

\* how many messages of a sequence are requests, or responses, with this id
RequestsWithId(s, i) ==
  Cardinality({ k \in 1..Len(s) : IsRequest(s[k]) /\ s[k].id = i })
ResponsesWithId(s, i) ==
  Cardinality({ k \in 1..Len(s) : HasId(s[k]) /\ ~HasMethod(s[k]) /\ s[k].id = i })

\* the ids 0..clientNextId-1 were assigned by the SDK client inside the relay
AssignedInside(i) == i < clientNextId

\* C31: every response written to the local peer carries the id of a request
\* the local peer sent and that has not been answered yet, and no message of
\* the remote peer that carries an id assigned inside the relay is written
\* to the local peer.
C31_OnlyLocalIdsReachLocalPeer ==
  [][/\ \A k \in (Len(stdioOut) + 1)..Len(stdioOut') :
          (HasId(stdioOut'[k]) /\ ~HasMethod(stdioOut'[k])) =>
             RequestsWithId(stdioIn', stdioOut'[k].id)
               > ResponsesWithId(stdioOut, stdioOut'[k].id)
     /\ \A i \in 0..(MaxLocal + 2) :
          (PipeSseOnMessage(ResultResponse(i, "objOk")) /\ AssignedInside(i)) =>
             stdioOut' = stdioOut]_vars

----------------------------------------------------------------------------
(* Properties of the MCPServer router *)

\* the k-th POST was a request for a session whose SSE connection is open
PostedToOpenSession(k) ==
  /\ Len(posted) >= k
  /\ posted[k].sessionId \in openSse

\* the request of the k-th POST was handed to the MCP server and a response
\* with its id was written on the stream of its session
DeliveredAndAnswered(k) ==
  /\ \E j \in 1..Len(serverIn) : serverIn[j] = posted[k].message
  /\ \E j \in 1..Len(sseStreams[posted[k].sessionId]) :
       sseStreams[posted[k].sessionId][j] = ResultResponse(posted[k].message.id, "objOk")

\* C32: a request posted to the message path with the sessionId of an open
\* SSE connection is eventually delivered to the MCP server and answered on
\* the stream of that session, unless the connection is closed first.
C32_PostedRequestDeliveredAndAnswered ==
  \A k \in 1..MaxInbound :
    PostedToOpenSession(k) ~>
      (Len(posted) >= k /\
         (DeliveredAndAnswered(k) \/ posted[k].sessionId \notin openSse))

\* the line feeds among the bytes the child has written
NumLF(bytes) == Cardinality({ k \in 1..Len(bytes) : bytes[k] = "LF" })

\* C36: the stdout reader handles a line only once its terminator has been
\* written: the lines it has iterated over are as many as the line feeds the
\* child wrote, and no more lines are broadcast than that.  The exit of the
\* child handles no line and leaves the carry-over buffer as it is, and
\* nothing is handled after it: the text after the last terminator is never
\* parsed or broadcast.
C36_UnterminatedTailNeverFlushed ==
  /\ [](Len(seen) = NumLF(stream) /\ Len(bcastLog) <= Len(seen))
  /\ [][child'.exited => UNCHANGED <<seen, bcastLog, sends, buffer>>]_vars

\* the child wrote a line, then a valid JSON text without a terminator, and
\* exited: the first line was broadcast, the second is still in the buffer
C36_Witness ==
  /\ child.exited /\ ~proc.alive
  /\ toWrite = <<>>
  /\ stream = <<"1", "LF", "1">>
  /\ buffer = <<"1">>
  /\ seen = << <<"1">> >>
  /\ Len(bcastLog) = 1

----------------------------------------------------------------------------
(* Properties of the stdin-to-POST client *)

\* C37: the fetch calls are started in the order the lines were read: each
\* call is for a later line than the call before it.
C37_PostsStartInReadOrder ==
  \A k \in 1..(Len(fetches) - 1) : fetches[k].idx < fetches[k + 1].idx

\* the bodies of the fetch calls, in the order their lines were read
RECURSIVE BodiesFrom(_)
BodiesFrom(i) ==
  IF i > linesRead THEN <<>>
  ELSE LET F == { k \in 1..Len(fetches) : fetches[k].idx = i }
       IN  [k \in 1..Cardinality(F) |-> fetches[CHOOSE j \in F : TRUE].body]
             \o BodiesFrom(i + 1)

\* all of stdin has arrived and every loop has ended
ClientDone ==
  /\ stdinLeft = <<>>
  /\ \A h \in 1..Len(loops) : ~loops[h].awaiting

\* C38: once all of stdin has arrived and every loop has ended, the bodies
\* posted are the postable lines of the whole text, each once and intact,
\* however the text was cut into chunks.
C38_PostsIndependentOfChunking ==
  ClientDone => BodiesFrom(1) = Postable(SplitLF(stdinText))

====
